---- MODULE Spec2Model ----
(***************************************************************************)
(* Heartnest: two partners talk to an AI separately in one therapy         *)
(* session; the client reconstructs each partner's thread from the shared  *)
(* message log, stores a summary when the reply carries a marker phrase,   *)
(* and appends one shared SOLUTION message once both have finished.        *)
(*                                                                         *)
(* Storage (chat_messages, summaries) is the shared state; every browser   *)
(* tab is a client with its own React state and localStorage.  Each await  *)
(* on storage or on the chat API is a separate step of the model.          *)
(***************************************************************************)
EXTENDS Integers, Sequences, FiniteSets, TLC

(***************************************************************************)
(* Bounds of the model.                                                    *)
(***************************************************************************)
NumClients == 2
MaxTurns == 2
MaxReloads == 1
MaxFails == 1
MaxRuns == 2
MaxLogLen == 3
MaxSummaries == 2
MaxNameLen == 2
MaxSessions == 1

Clients == 1..NumClients

(***************************************************************************)
(* Values of the program.                                                  *)
(***************************************************************************)
\* session.partner_names.split(' & ') of the one therapy session
partnerNames == <<"A", "B">>
Partners == {partnerNames[1], partnerNames[2]}
\* name of the shared solution message
SOLUTION == "SOLUTION"
\* selectedPartner = null, localStorage.getItem(...) = null
Null == "null"
\* no summary (null, undefined): summary_text is NOT NULL and never empty
NoSummary == <<>>

\* Texts are sequences of tokens.  A token stands for a phrase.
UserText == <<"hello">>
Heading == "Final Solution & Recommendations"
summaryMarkers == {"Here's what I've understood about your side of the story:",
                   "Here's what I've understood about their perspective so far",
                   "what I've understood about your perspective so far",
                   "Here's what I have understood so far from your perspective"}

\* the phrases the prompt templates tell the completion function to open a
\* summary with: createPartner1Prompt quotes its phrase with the ASCII
\* apostrophe, createPartner2Prompt with the typographic one, written {U+2019}
instructedPhrases ==
  {"Here's what I have understood so far from your perspective",
   "Here{U+2019}s what I{U+2019}ve understood about your side of the story:"}

\* what the completion function may answer to a request for partnerName: a
\* plain reply, or a text that opens with a marker phrase and sums up that
\* partner's side
AiResponses(partnerName) ==
  {<<"tell me more">>,
   <<"Here's what I have understood so far from your perspective", partnerName>>}

\* String.prototype.toLowerCase on a phrase token (the tokens used are the
\* marker phrases, as written in the source, in capitals and in small letters,
\* and lower-case filler)
toLowerCase(t) ==
  CASE t \in {"Here's what I've understood about your side of the story:",
              "HERE'S WHAT I'VE UNDERSTOOD ABOUT YOUR SIDE OF THE STORY:"}
         -> "here's what i've understood about your side of the story:"
    [] t \in {"Here's what I've understood about their perspective so far",
              "HERE'S WHAT I'VE UNDERSTOOD ABOUT THEIR PERSPECTIVE SO FAR"}
         -> "here's what i've understood about their perspective so far"
    [] t \in {"what I've understood about your perspective so far",
              "WHAT I'VE UNDERSTOOD ABOUT YOUR PERSPECTIVE SO FAR"}
         -> "what i've understood about your perspective so far"
    [] t \in {"Here's what I have understood so far from your perspective",
              "HERE'S WHAT I HAVE UNDERSTOOD SO FAR FROM YOUR PERSPECTIVE"}
         -> "here's what i have understood so far from your perspective"
    [] t = "Here{U+2019}s what I{U+2019}ve understood about your side of the story:"
         -> "here{U+2019}s what i{U+2019}ve understood about your side of the story:"
    [] OTHER -> t

\* a slip: the reply is compared as written
hasSummaryFormat_asWritten(aiResponse) ==
  \E i \in DOMAIN aiResponse :
    \E marker \in summaryMarkers : aiResponse[i] = toLowerCase(marker)

\* the detector of the chat route: some marker occurs in the reply
hasSummaryFormat(aiResponse) ==
  \E i \in DOMAIN aiResponse :
    \E marker \in summaryMarkers : toLowerCase(aiResponse[i]) = toLowerCase(marker)

\* a slip: the summary is the reply without its opening phrase
summaryOf_extracted(aiResponse) ==
  IF hasSummaryFormat(aiResponse) THEN Tail(aiResponse) ELSE NoSummary

\* the "summary" field of the chat route's answer
summaryOf(aiResponse) == IF hasSummaryFormat(aiResponse) THEN aiResponse ELSE NoSummary

(***************************************************************************)
(* Messages.  id is the row id storage assigns on insert (the position in  *)
(* the log); a message object built in the client has no id (0).           *)
(***************************************************************************)
Msg(id, role, name, text) == [id |-> id, role |-> role, name |-> name, message |-> text]

hasSolution(msgs) == \E i \in DOMAIN msgs : msgs[i].name = SOLUTION

\* messages.slice(0, i).some(m => m.role === 'user' && m.name === partnerName)
hasUserMessagesBefore(messages, i, partnerName) ==
  \E j \in 1..(i - 1) : messages[j].role = "user" /\ messages[j].name = partnerName

RECURSIVE filterLoop(_, _, _, _, _)
filterLoop(messages, partnerName, i, partnerMessages, expectingAIResponse) ==
  IF i > Len(messages) THEN partnerMessages
  ELSE LET msg == messages[i] IN
    IF msg.role = "user" /\ msg.name = partnerName
      THEN filterLoop(messages, partnerName, i + 1, Append(partnerMessages, msg), TRUE)
    ELSE IF msg.role = "assistant" /\ expectingAIResponse
      THEN filterLoop(messages, partnerName, i + 1, Append(partnerMessages, msg), FALSE)
    ELSE IF msg.role = "assistant" /\ Len(partnerMessages) = 0
      THEN IF ~hasUserMessagesBefore(messages, i, partnerName)
             THEN filterLoop(messages, partnerName, i + 1, Append(partnerMessages, msg),
                             expectingAIResponse)
             ELSE filterLoop(messages, partnerName, i + 1, partnerMessages,
                             expectingAIResponse)
    ELSE IF msg.role = "assistant" /\ msg.name = SOLUTION
      THEN filterLoop(messages, partnerName, i + 1, Append(partnerMessages, msg),
                      expectingAIResponse)
    ELSE filterLoop(messages, partnerName, i + 1, partnerMessages, expectingAIResponse)

\* a slip of the loop: any user message, not only the partner's, arms
\* expectingAIResponse
RECURSIVE filterLoopAnyUser(_, _, _, _, _)
filterLoopAnyUser(messages, partnerName, i, partnerMessages, expectingAIResponse) ==
  IF i > Len(messages) THEN partnerMessages
  ELSE LET msg == messages[i] IN
    IF msg.role = "user"
      THEN filterLoopAnyUser(messages, partnerName, i + 1,
                             IF msg.name = partnerName THEN Append(partnerMessages, msg)
                                                       ELSE partnerMessages,
                             TRUE)
    ELSE IF msg.role = "assistant" /\ expectingAIResponse
      THEN filterLoopAnyUser(messages, partnerName, i + 1, Append(partnerMessages, msg), FALSE)
    ELSE IF msg.role = "assistant" /\ Len(partnerMessages) = 0
      THEN filterLoopAnyUser(messages, partnerName, i + 1, Append(partnerMessages, msg),
                             expectingAIResponse)
    ELSE IF msg.role = "assistant" /\ msg.name = SOLUTION
      THEN filterLoopAnyUser(messages, partnerName, i + 1, Append(partnerMessages, msg),
                             expectingAIResponse)
    ELSE filterLoopAnyUser(messages, partnerName, i + 1, partnerMessages, expectingAIResponse)

filterMessagesByPartner_anyUser(messages, partnerName) ==
  filterLoopAnyUser(messages, partnerName, 1, <<>>, FALSE)

\* the client's partitioner
filterMessagesByPartner(messages, partnerName) ==
  filterLoop(messages, partnerName, 1, <<>>, FALSE)

\* the predicate of messages.filter((msg, index) => ...) in the service
historyKeeps(messages, index, partnerName) ==
  LET msg == messages[index] IN
    \/ msg.role = "user" /\ msg.name = partnerName
    \/ /\ msg.role = "assistant"
       /\ \/ /\ index > 1
             /\ messages[index - 1].role = "user"
             /\ messages[index - 1].name = partnerName
          \/ index = 1

RECURSIVE historyLoop(_, _, _)
historyLoop(messages, index, partnerName) ==
  IF index > Len(messages) THEN <<>>
  ELSE (IF historyKeeps(messages, index, partnerName) THEN <<messages[index]>> ELSE <<>>)
       \o historyLoop(messages, index + 1, partnerName)

\* therapyService.getTherapyChatHistory(sessionId, partnerName) on the stored log
getTherapyChatHistory(messages, partnerName) == historyLoop(messages, 1, partnerName)

(***************************************************************************)
(* Summaries.                                                              *)
(***************************************************************************)
\* summaries.find(s => s.partner_name === name): the first row, or undefined
findSummary(rows, name) ==
  LET hits == SelectSeq(rows, LAMBDA s : s.partner_name = name) IN
    IF Len(hits) = 0 THEN NoSummary ELSE hits[1].summary_text

\* therapyService.getPartnerSummary: .single() gives the row when exactly one
\* matches, and error PGRST116 (mapped to null) when none or several match
getPartnerSummary(rows, name) ==
  LET hits == SelectSeq(rows, LAMBDA s : s.partner_name = name) IN
    IF Len(hits) = 1 THEN hits[1].summary_text ELSE NoSummary

\* the text of the solution message built from a summary text
solutionText(summary_text) == <<Heading>> \o summary_text

(***************************************************************************)
(* State.                                                                  *)
(***************************************************************************)
VARIABLES
  log,                    \* chat_messages of the session, in created_at order
  summaries,              \* summaries of the session, in created_at order
  open,                   \* client -> the page is mounted and initialised
  isNewUser,              \* client -> the page was opened with ?new=true
  localStorage,           \* client -> therapy_partner_<sessionId>
  selectedPartner,        \* client -> React state
  isUsed,                 \* client -> partner names flagged isUsed in `partners`
  messages,               \* client -> React state (the displayed thread)
  allMessages,            \* client -> React state (the cache of all messages)
  bothPartnersCompleted,  \* client -> React state
  currentPartnerCompleted,\* client -> React state
  isLoading,              \* client -> React state
  starting,               \* client -> a START_CONVERSATION request is in flight
  turn,                   \* client -> where handleSubmit stands
  co,                     \* client -> source -> where checkBothPartnersCompleted stands
  turns,                  \* user turns submitted so far
  reloads,                \* page reloads so far
  fails,                  \* storage calls that have failed so far
  runs,                   \* coordinator runs that have found two summaries so far
  sessions,               \* chat_sessions, in created_at order
  partner1Name,           \* home page: React state of the first name field
  partner2Name,           \* home page: React state of the second name field
  request,                \* the body of a call of POST /api/therapist/chat
  response                \* the answer to it

vars == <<log, summaries, open, isNewUser, localStorage, selectedPartner, isUsed,
          messages, allMessages, bothPartnersCompleted, currentPartnerCompleted,
          isLoading, starting, turn, co, turns, reloads, fails, runs,
          sessions, partner1Name, partner2Name, request, response>>

dbVars == <<log, summaries>>

\* the session table, the home page and a call of the chat route by itself
apiVars == <<sessions, partner1Name, partner2Name, request, response>>

\* the two callers of checkBothPartnersCompleted that run it with a live
\* session: "poll" is the closure of the latest render (the 4 s interval and
\* the call at the end of loadChatHistory), "turn" is the closure handleSubmit
\* captured when the turn was submitted (the 500 ms timer)
Sources == {"poll", "turn"}

START_CONVERSATION == "START_CONVERSATION"

\* the body of a request to the chat route; the message is one phrase, the
\* messages are the thread the client sends along
NoRequest == [sessionId |-> "", partnerName |-> "", message |-> "", messages |-> <<>>]

IdleTurn == [pc |-> "idle", summary |-> NoSummary, bpc |-> FALSE, seen |-> FALSE,
             body |-> NoRequest]
IdleCo == [pc |-> "idle", sol |-> NoSummary, bpc |-> FALSE, seen |-> FALSE]

\* a slip: the new row is put in front of the stored ones
saveTherapyMessage_inFront(rows, role, name, text) ==
  <<Msg(Len(rows) + 1, role, name, text)>> \o rows

\* supabase insert into chat_messages: the row gets its id
saveTherapyMessage(rows, role, name, text) == Append(rows, Msg(Len(rows) + 1, role, name, text))

\* supabase insert into summaries
savePartnerSummary(rows, name, text) ==
  Append(rows, [partner_name |-> name, summary_text |-> text])

(***************************************************************************)
(* Sessions, and the chat route POST /api/therapist/chat.                  *)
(***************************************************************************)
\* the id of the session of this model, and of a session of the other kind
SessionId == "s1"
PilotId == "s2"

\* chat_sessions.id is a UUID: the strings that are well-formed ids
Uuids == {"s1", "s2", "s3"}

\* texts of the home page and of partner_names, character by character
Space == " "
Separator == <<" ", "&", " ">>

\* the rows of chat_sessions when the page is opened
StoredSessions ==
  <<[id |-> SessionId, session_type |-> "THERAPY",
     partner_names |-> <<partnerNames[1]>> \o Separator \o <<partnerNames[2]>>],
    [id |-> PilotId, session_type |-> "PILOT", partner_names |-> <<>>]>>

NoPrompt == <<>>
NoResponse == [status |-> 0, error |-> "", prompt |-> NoPrompt, chatMessages |-> <<>>,
               message |-> <<>>, summary |-> NoSummary]

\* therapyService.getTherapySession: the rows selected by .eq('id').eq('session_type')
getTherapySession(rows, sessionId) ==
  SelectSeq(rows, LAMBDA r : r.id = sessionId /\ r.session_type = "THERAPY")

\* partnerNames.find(name => name !== partnerName) || 'your partner'
otherPartnerNameOf(partnerName) ==
  IF partnerNames[1] # partnerName THEN partnerNames[1]
  ELSE IF partnerNames[2] # partnerName THEN partnerNames[2]
  ELSE "your partner"

\* selectedPrompt: the template with the two names, then for the second partner's
\* START_CONVERSATION the first partner's summary, if getPartnerSummary finds it
selectedPrompt(rows, partnerName, message) ==
  LET isPartner1 == partnerNames[1] = partnerName
      otherPartnerName == otherPartnerNameOf(partnerName)
      partner1Summary == getPartnerSummary(rows, otherPartnerName)
  IN <<IF isPartner1 THEN "createPartner1Prompt" ELSE "createPartner2Prompt",
       partnerName, otherPartnerName>>
       \o (IF ~isPartner1 /\ message = START_CONVERSATION /\ partner1Summary # NoSummary
             THEN <<"Start the conversation with">> \o partner1Summary
             ELSE <<>>)

\* a slip: the conversation history is not filtered
partnerOnlyMessages_all(thread, partnerName) == thread

\* messages.filter(msg => msg.name === partnerName || (msg.role === 'assistant'
\* && (msg.name === null || msg.name === partnerName)))
partnerOnlyMessages(thread, partnerName) ==
  SelectSeq(thread, LAMBDA msg :
    \/ msg.name = partnerName
    \/ msg.role = "assistant" /\ (msg.name = Null \/ msg.name = partnerName))

\* partnerOnlyMessages.map(msg => ({role: msg.role, content: msg.message}))
conversationHistory(thread) ==
  [i \in DOMAIN thread |-> [role |-> thread[i].role, content |-> thread[i].message]]

\* the input of the completion function for a request
chatMessages(req) ==
  LET system == [role |-> "system",
                 content |-> selectedPrompt(summaries, req.partnerName, req.message)]
  IN IF req.message = START_CONVERSATION
       THEN <<system, [role |-> "user", content |-> <<"Please start the conversation">>]>>
       ELSE <<system>>
            \o conversationHistory(partnerOnlyMessages(req.messages, req.partnerName))
            \o <<[role |-> "user", content |-> <<req.message>>]>>

\* the checks of the route before the prompt is built: the answer they return,
\* or NoResponse when they pass
validate(req) ==
  IF req.sessionId = "" \/ req.partnerName = "" \/ req.message = ""
    THEN [NoResponse EXCEPT !.status = 400, !.error = "Missing required fields"]
  ELSE IF req.sessionId \notin Uuids
    \* the query fails with an error other than PGRST116: getTherapySession
    \* throws and the catch of the route answers
    THEN [NoResponse EXCEPT !.status = 500, !.error = "Failed to process therapy chat"]
  ELSE IF Len(getTherapySession(sessions, req.sessionId)) # 1
    THEN [NoResponse EXCEPT !.status = 404, !.error = "Session not found"]
  ELSE NoResponse

Init ==
  /\ log = <<>>
  /\ summaries = <<>>
  /\ open = [c \in Clients |-> FALSE]
  \* the creator's tab has no ?new=true, a tab opened from the shared link has;
  \* the creator may have a second tab
  /\ isNewUser \in {f \in [Clients -> BOOLEAN] : \A c \in Clients : c > 1 => f[c]}
                     \cup {[c \in Clients |-> FALSE]}
  /\ localStorage = [c \in Clients |-> Null]
  /\ selectedPartner = [c \in Clients |-> Null]
  /\ isUsed = [c \in Clients |-> {}]
  /\ messages = [c \in Clients |-> <<>>]
  /\ allMessages = [c \in Clients |-> <<>>]
  /\ bothPartnersCompleted = [c \in Clients |-> FALSE]
  /\ currentPartnerCompleted = [c \in Clients |-> FALSE]
  /\ isLoading = [c \in Clients |-> FALSE]
  /\ starting = [c \in Clients |-> FALSE]
  /\ turn = [c \in Clients |-> IdleTurn]
  /\ co = [c \in Clients |-> [s \in Sources |-> IdleCo]]
  /\ turns = 0
  /\ reloads = 0
  /\ fails = 0
  /\ runs = 0
  /\ sessions = StoredSessions
  /\ partner1Name = <<>>
  /\ partner2Name = <<>>
  /\ request = NoRequest
  /\ response = NoResponse

(***************************************************************************)
(* initializeSession: the effect that runs once when the page mounts.      *)
(***************************************************************************)
usedPartnerNames(msgs) ==
  {msgs[i].name : i \in {j \in DOMAIN msgs : msgs[j].role = "user" /\ msgs[j].name # Null}}

\* the returning-user branch; its closing checkBothPartnersCompleted() is the
\* closure of the first render, where session is still null, and returns at once
initReturning(c) ==
  LET storedPartner == localStorage[c]
      partnerHistory == getTherapyChatHistory(log, storedPartner)
  IN /\ selectedPartner' = [selectedPartner EXCEPT ![c] = storedPartner]
     /\ isUsed' = [isUsed EXCEPT ![c] = {storedPartner}]
     /\ messages' = [messages EXCEPT ![c] = partnerHistory]
     /\ allMessages' = [allMessages EXCEPT ![c] = partnerHistory]
     /\ bothPartnersCompleted' =
          [bothPartnersCompleted EXCEPT ![c] = hasSolution(partnerHistory)]
     /\ currentPartnerCompleted' =
          [currentPartnerCompleted EXCEPT
             ![c] = getPartnerSummary(summaries, storedPartner) # NoSummary]
     /\ starting' = [starting EXCEPT ![c] = FALSE]
     /\ UNCHANGED localStorage

\* the fresh-user branch; the session creator is given the first partner name
\* and autoStartConversation is scheduled
initFresh(c) ==
  LET used == usedPartnerNames(log)
      firstPartnerName == partnerNames[1]
      assign == ~isNewUser[c] /\ firstPartnerName \notin used
  IN /\ allMessages' = [allMessages EXCEPT ![c] = log]
     /\ isUsed' = [isUsed EXCEPT ![c] = used \cap Partners]
     /\ selectedPartner' = [selectedPartner EXCEPT
                              ![c] = IF assign THEN firstPartnerName ELSE Null]
     /\ localStorage' = [localStorage EXCEPT
                           ![c] = IF assign THEN firstPartnerName ELSE @]
     /\ starting' = [starting EXCEPT ![c] = assign]
     /\ messages' = [messages EXCEPT ![c] = <<>>]
     /\ bothPartnersCompleted' = [bothPartnersCompleted EXCEPT ![c] = FALSE]
     /\ currentPartnerCompleted' = [currentPartnerCompleted EXCEPT ![c] = FALSE]

\* a slip: the stored selection is not looked up
mount_ignoresStored(c) ==
  /\ open' = [open EXCEPT ![c] = TRUE]
  /\ isLoading' = [isLoading EXCEPT ![c] = FALSE]
  /\ turn' = [turn EXCEPT ![c] = IdleTurn]
  /\ co' = [co EXCEPT ![c] = [s \in Sources |-> IdleCo]]
  /\ initFresh(c)

\* the component mounts with fresh React state and runs the effect
mount(c) ==
  /\ open' = [open EXCEPT ![c] = TRUE]
  /\ isLoading' = [isLoading EXCEPT ![c] = FALSE]
  /\ turn' = [turn EXCEPT ![c] = IdleTurn]
  /\ co' = [co EXCEPT ![c] = [s \in Sources |-> IdleCo]]
  /\ IF localStorage[c] \in Partners THEN initReturning(c) ELSE initFresh(c)

\* a client opens the session page for the first time
initializeSession(c) ==
  /\ ~open[c]
  /\ mount(c)
  /\ UNCHANGED <<dbVars, isNewUser, apiVars, turns, reloads, fails, runs>>

\* the page is reloaded (or closed and opened again) while no request of the
\* client is in flight: React state and pending timers are gone, localStorage
\* stays, and initializeSession runs again
reload(c) ==
  /\ open[c]
  /\ reloads < MaxReloads
  /\ ~starting[c]
  /\ turn[c].pc = "idle"
  /\ \A s \in Sources : co[c][s].pc \in {"idle", "timer"}
  /\ reloads' = reloads + 1
  /\ mount(c)
  /\ UNCHANGED <<dbVars, isNewUser, apiVars, turns, fails, runs>>

(***************************************************************************)
(* checkBothPartnersCompleted.  A run of it is a record: pc says which     *)
(* await it stands at, sol is the summary text it found for the second     *)
(* partner, bpc and seen are bothPartnersCompleted and                     *)
(* messages.some(SOLUTION) as its closure holds them.                      *)
(***************************************************************************)
\* a slip: the solution is looked up under the first partner's name
coDecide_firstPartner(rows, messagesToCheck, seen) ==
  LET solution == findSummary(rows, partnerNames[1]) IN
    IF hasSolution(messagesToCheck) \/ solution = NoSummary
      THEN IdleCo
      ELSE [pc |-> "append", sol |-> solution, bpc |-> FALSE, seen |-> seen]

\* from solutionExists to the call of saveTherapyMessage; rows are the
\* summaries it loaded
coDecide(rows, messagesToCheck, seen) ==
  LET solution == findSummary(rows, partnerNames[2]) IN
    IF hasSolution(messagesToCheck) \/ solution = NoSummary
      THEN IdleCo
      ELSE [pc |-> "append", sol |-> solution, bpc |-> FALSE, seen |-> seen]

\* from the answer of getSessionSummaries on: with a cache it decides at once,
\* without one it goes on to getAllSessionMessages
coStart(c, seen) ==
  IF Len(summaries) >= 2
    THEN IF Len(allMessages[c]) > 0
           THEN coDecide(summaries, allMessages[c], seen)
           ELSE [pc |-> "fetch", sol |-> findSummary(summaries, partnerNames[2]),
                 bpc |-> FALSE, seen |-> seen]
    ELSE IdleCo

\* setBothPartnersCompleted(true) has run when coStart returns
coStartSetsFlag(c) == Len(summaries) >= 2 /\ Len(allMessages[c]) > 0

\* the count of runs after n more calls have loaded the summaries
runsAfter(n) == IF Len(summaries) >= 2 THEN runs + n ELSE runs

\* the 4 s interval, armed while !bothPartnersCompleted && selectedPartner
poll(c) ==
  /\ open[c]
  /\ selectedPartner[c] # Null
  /\ ~bothPartnersCompleted[c]
  /\ co[c]["poll"].pc = "idle"
  /\ runsAfter(1) <= MaxRuns
  /\ runs' = runsAfter(1)
  /\ co' = [co EXCEPT ![c]["poll"] = coStart(c, hasSolution(messages[c]))]
  /\ bothPartnersCompleted' =
       [bothPartnersCompleted EXCEPT ![c] = coStartSetsFlag(c)]
  /\ UNCHANGED <<dbVars, open, isNewUser, apiVars, localStorage, selectedPartner, isUsed,
                 messages, allMessages, currentPartnerCompleted, isLoading,
                 starting, turn, turns, reloads, fails>>

\* the 500 ms timer of handleSubmit fires
timer(c) ==
  /\ co[c]["turn"].pc = "timer"
  /\ IF co[c]["turn"].bpc
       THEN /\ co' = [co EXCEPT ![c]["turn"] = IdleCo]
            /\ UNCHANGED <<bothPartnersCompleted, runs>>
       ELSE /\ runsAfter(1) <= MaxRuns
            /\ runs' = runsAfter(1)
            /\ co' = [co EXCEPT ![c]["turn"] = coStart(c, co[c]["turn"].seen)]
            /\ bothPartnersCompleted' =
                 [bothPartnersCompleted EXCEPT ![c] = @ \/ coStartSetsFlag(c)]
  /\ UNCHANGED <<dbVars, open, isNewUser, apiVars, localStorage, selectedPartner, isUsed,
                 messages, allMessages, currentPartnerCompleted, isLoading,
                 starting, turn, turns, reloads, fails>>

\* getAllSessionMessages answers
coFetch(c, s) ==
  /\ co[c][s].pc = "fetch"
  /\ co' = [co EXCEPT ![c][s] =
              IF hasSolution(log) \/ @.sol = NoSummary
                THEN IdleCo ELSE [@ EXCEPT !.pc = "append"]]
  /\ bothPartnersCompleted' = [bothPartnersCompleted EXCEPT ![c] = TRUE]
  /\ UNCHANGED <<dbVars, open, isNewUser, apiVars, localStorage, selectedPartner, isUsed,
                 messages, allMessages, currentPartnerCompleted, isLoading,
                 starting, turn, turns, reloads, fails, runs>>

\* saveTherapyMessage(solutionMessage) answers, then the local append
coAppend(c, s) ==
  /\ co[c][s].pc = "append"
  /\ log' = saveTherapyMessage(log, "assistant", SOLUTION, solutionText(co[c][s].sol))
  /\ messages' = [messages EXCEPT ![c] =
                    IF co[c][s].seen THEN @
                    ELSE Append(@, Msg(0, "assistant", SOLUTION,
                                       solutionText(co[c][s].sol)))]
  /\ co' = [co EXCEPT ![c][s] = IdleCo]
  /\ UNCHANGED <<summaries, open, isNewUser, apiVars, localStorage, selectedPartner, isUsed,
                 allMessages, bothPartnersCompleted, currentPartnerCompleted,
                 isLoading, starting, turn, turns, reloads, fails, runs>>

\* saveTherapyMessage(solutionMessage) throws: the catch logs and returns
coAppendFails(c, s) ==
  /\ co[c][s].pc = "append"
  /\ fails < MaxFails
  /\ fails' = fails + 1
  /\ co' = [co EXCEPT ![c][s] = IdleCo]
  /\ UNCHANGED <<dbVars, open, isNewUser, apiVars, localStorage, selectedPartner, isUsed,
                 messages, allMessages, bothPartnersCompleted,
                 currentPartnerCompleted, isLoading, starting, turn, turns, reloads, runs>>

(***************************************************************************)
(* Partner selection and the conversation opener.                          *)
(***************************************************************************)
\* the "Start Chatting" button of the selection screen, shown to a new user
\* without a partner while the second partner is not flagged isUsed
handlePartnerSelect(c) ==
  /\ open[c]
  /\ isNewUser[c]
  /\ selectedPartner[c] = Null
  /\ partnerNames[2] \notin isUsed[c]
  /\ selectedPartner' = [selectedPartner EXCEPT ![c] = partnerNames[2]]
  /\ messages' = [messages EXCEPT ![c] = <<>>]
  /\ localStorage' = [localStorage EXCEPT ![c] = partnerNames[2]]
  /\ starting' = [starting EXCEPT ![c] = TRUE]
  /\ UNCHANGED <<dbVars, open, isNewUser, apiVars, isUsed, allMessages, bothPartnersCompleted,
                 currentPartnerCompleted, isLoading, turn, co, turns, reloads, fails, runs>>

\* what the completion function may answer to START_CONVERSATION: a plain
\* opener, or, when the prompt of the second partner embeds the first partner's
\* summary, an opener that quotes it
StartResponses(partnerName) ==
  LET isPartner1 == partnerNames[1] = partnerName
      otherPartnerName == IF isPartner1 THEN partnerNames[2] ELSE partnerNames[1]
      partner1Summary == getPartnerSummary(summaries, otherPartnerName)
  IN {<<"what's been going on?">>}
     \cup (IF ~isPartner1 /\ partner1Summary # NoSummary
             THEN {<<"I've already spoken to", otherPartnerName>> \o partner1Summary}
             ELSE {})

\* the answer to START_CONVERSATION (autoStartConversation and
\* handlePartnerSelect share the code): the opener is shown and saved under the
\* partner's name; the summary field of the answer is not read
\* a slip: the opener is treated like the reply to a turn
startReply_savesSummary(c) ==
  /\ starting[c]
  /\ starting' = [starting EXCEPT ![c] = FALSE]
  /\ \E aiMessage \in StartResponses(selectedPartner[c]) :
       /\ messages' = [messages EXCEPT
                         ![c] = <<Msg(0, "assistant", selectedPartner[c], aiMessage)>>]
       /\ log' = saveTherapyMessage(log, "assistant", selectedPartner[c], aiMessage)
       /\ summaries' = IF summaryOf(aiMessage) # NoSummary
                         THEN savePartnerSummary(summaries, selectedPartner[c],
                                                 summaryOf(aiMessage))
                         ELSE summaries
  /\ UNCHANGED <<open, isNewUser, apiVars, localStorage, selectedPartner, isUsed,
                 allMessages, bothPartnersCompleted, currentPartnerCompleted,
                 isLoading, turn, co, turns, reloads, fails, runs>>

startReply(c) ==
  /\ starting[c]
  /\ starting' = [starting EXCEPT ![c] = FALSE]
  /\ \E aiMessage \in StartResponses(selectedPartner[c]) :
       /\ messages' = [messages EXCEPT
                         ![c] = <<Msg(0, "assistant", selectedPartner[c], aiMessage)>>]
       /\ log' = saveTherapyMessage(log, "assistant", selectedPartner[c], aiMessage)
  /\ UNCHANGED <<summaries, open, isNewUser, apiVars, localStorage, selectedPartner, isUsed,
                 allMessages, bothPartnersCompleted, currentPartnerCompleted,
                 isLoading, turn, co, turns, reloads, fails, runs>>

\* the effect that loads the thread while none is shown (selectedPartner always
\* equals the stored partner, so it returns early once messages is not empty);
\* it ends with checkBothPartnersCompleted() of the current render
loadChatHistory(c) ==
  LET partnerHistory ==
        IF Len(allMessages[c]) > 0
          THEN filterMessagesByPartner(allMessages[c], selectedPartner[c])
          ELSE getTherapyChatHistory(log, selectedPartner[c])
      calls == ~bothPartnersCompleted[c] /\ co[c]["poll"].pc = "idle"
  IN /\ open[c]
     /\ selectedPartner[c] # Null
     /\ Len(messages[c]) = 0
     /\ messages' = [messages EXCEPT ![c] = partnerHistory]
     /\ currentPartnerCompleted' =
          [currentPartnerCompleted EXCEPT
             ![c] = getPartnerSummary(summaries, selectedPartner[c]) # NoSummary]
     /\ runsAfter(IF calls THEN 1 ELSE 0) <= MaxRuns
     /\ runs' = runsAfter(IF calls THEN 1 ELSE 0)
     /\ co' = [co EXCEPT ![c]["poll"] =
                 IF calls THEN coStart(c, hasSolution(messages[c])) ELSE @]
     /\ bothPartnersCompleted' =
          [bothPartnersCompleted EXCEPT
             ![c] = @ \/ hasSolution(partnerHistory) \/ (calls /\ coStartSetsFlag(c))]
     /\ UNCHANGED <<dbVars, open, isNewUser, apiVars, localStorage, selectedPartner, isUsed,
                    allMessages, isLoading, starting, turn, turns, reloads, fails>>

(***************************************************************************)
(* handleSubmit: one user turn.                                            *)
(***************************************************************************)
\* the form is rendered while the partner has not completed; the user message
\* is shown and saved
handleSubmit(c) ==
  /\ open[c]
  /\ selectedPartner[c] # Null
  /\ ~isLoading[c]
  /\ ~currentPartnerCompleted[c]
  /\ turns < MaxTurns
  /\ turns' = turns + 1
  /\ messages' = [messages EXCEPT
                    ![c] = Append(@, Msg(0, "user", selectedPartner[c], UserText))]
  /\ isLoading' = [isLoading EXCEPT ![c] = TRUE]
  /\ log' = saveTherapyMessage(log, "user", selectedPartner[c], UserText)
  /\ turn' = [turn EXCEPT ![c] = [pc |-> "sent", summary |-> NoSummary,
                                  bpc |-> bothPartnersCompleted[c],
                                  seen |-> hasSolution(messages[c]),
                                  body |-> [sessionId |-> SessionId,
                                            partnerName |-> selectedPartner[c],
                                            message |-> UserText[1],
                                            messages |-> Append(messages[c],
                                              Msg(0, "user", selectedPartner[c], UserText))]]]
  /\ UNCHANGED <<summaries, open, isNewUser, apiVars, localStorage, selectedPartner, isUsed,
                 allMessages, bothPartnersCompleted, currentPartnerCompleted,
                 starting, co, reloads, fails, runs>>

\* the chat route answers aiMessage; the reply is shown and saved under the
\* partner's name
handleSubmitReplyWith(c, aiMessage) ==
  /\ turn[c].pc = "sent"
  /\ messages' = [messages EXCEPT
                    ![c] = Append(@, Msg(0, "assistant", selectedPartner[c], aiMessage))]
  /\ log' = saveTherapyMessage(log, "assistant", selectedPartner[c], aiMessage)
  /\ IF summaryOf(aiMessage) # NoSummary
       THEN /\ turn' = [turn EXCEPT ![c].pc = "summary",
                                    ![c].summary = summaryOf(aiMessage)]
            /\ UNCHANGED isLoading
       ELSE /\ turn' = [turn EXCEPT ![c] = IdleTurn]
            /\ isLoading' = [isLoading EXCEPT ![c] = FALSE]
  /\ UNCHANGED <<summaries, open, isNewUser, apiVars, localStorage, selectedPartner, isUsed,
                 allMessages, bothPartnersCompleted, currentPartnerCompleted,
                 starting, co, turns, reloads, fails, runs>>

handleSubmitReply(c) ==
  \E aiMessage \in AiResponses(selectedPartner[c]) : handleSubmitReplyWith(c, aiMessage)

\* the chat route answers with an error or the call throws: the catch shows a
\* toast, finally clears isLoading; the user message stays saved and shown
handleSubmitFails(c) ==
  /\ turn[c].pc = "sent"
  /\ fails < MaxFails
  /\ fails' = fails + 1
  /\ turn' = [turn EXCEPT ![c] = IdleTurn]
  /\ isLoading' = [isLoading EXCEPT ![c] = FALSE]
  /\ UNCHANGED <<dbVars, open, isNewUser, apiVars, localStorage, selectedPartner, isUsed,
                 messages, allMessages, bothPartnersCompleted, currentPartnerCompleted,
                 starting, co, turns, reloads, runs>>

\* savePartnerSummary throws: the reply stays saved, no Summary row is stored
\* and currentPartnerCompleted stays false
handleSubmitSummaryFails(c) ==
  /\ turn[c].pc = "summary"
  /\ fails < MaxFails
  /\ fails' = fails + 1
  /\ turn' = [turn EXCEPT ![c] = IdleTurn]
  /\ isLoading' = [isLoading EXCEPT ![c] = FALSE]
  /\ UNCHANGED <<dbVars, open, isNewUser, apiVars, localStorage, selectedPartner, isUsed,
                 messages, allMessages, bothPartnersCompleted, currentPartnerCompleted,
                 starting, co, turns, reloads, runs>>

\* savePartnerSummary answers; the 500 ms timer for the coordinator is set
handleSubmitSummary(c) ==
  /\ turn[c].pc = "summary"
  /\ summaries' = savePartnerSummary(summaries, selectedPartner[c], turn[c].summary)
  /\ currentPartnerCompleted' = [currentPartnerCompleted EXCEPT ![c] = TRUE]
  /\ co' = [co EXCEPT ![c]["turn"] = [pc |-> "timer", sol |-> NoSummary,
                                      bpc |-> turn[c].bpc, seen |-> turn[c].seen]]
  /\ turn' = [turn EXCEPT ![c] = IdleTurn]
  /\ isLoading' = [isLoading EXCEPT ![c] = FALSE]
  /\ UNCHANGED <<log, open, isNewUser, apiVars, localStorage, selectedPartner, isUsed, messages,
                 allMessages, bothPartnersCompleted, starting, turns, reloads, fails, runs>>

Next ==
  \E c \in Clients :
    \/ initializeSession(c)
    \/ handlePartnerSelect(c)
    \/ startReply(c)
    \/ loadChatHistory(c)
    \/ handleSubmit(c)
    \/ handleSubmitReply(c)
    \/ handleSubmitSummary(c)
    \/ handleSubmitFails(c)
    \/ handleSubmitSummaryFails(c)
    \/ poll(c)
    \/ timer(c)
    \/ \E s \in Sources : coFetch(c, s) \/ coAppend(c, s) \/ coAppendFails(c, s)
    \/ reload(c)

Spec == Init /\ [][Next]_vars

(***************************************************************************)
(* Coordinator runs one after another: no step leaves two runs of          *)
(* checkBothPartnersCompleted between their first answer and their last.   *)
(***************************************************************************)
inFlight == {cs \in Clients \X Sources : co[cs[1]][cs[2]].pc \in {"fetch", "append"}}

Sequential == Cardinality(inFlight) <= 1

SeqNext ==
  \E c \in Clients :
    \/ initializeSession(c) /\ Sequential'
    \/ handlePartnerSelect(c) /\ Sequential'
    \/ startReply(c) /\ Sequential'
    \/ loadChatHistory(c) /\ Sequential'
    \/ handleSubmit(c) /\ Sequential'
    \/ handleSubmitReply(c) /\ Sequential'
    \/ handleSubmitSummary(c) /\ Sequential'
    \/ handleSubmitFails(c) /\ Sequential'
    \/ handleSubmitSummaryFails(c) /\ Sequential'
    \/ poll(c) /\ Sequential'
    \/ timer(c) /\ Sequential'
    \/ \E s \in Sources : coFetch(c, s) /\ Sequential'
    \/ \E s \in Sources : coAppend(c, s) /\ Sequential'
    \/ \E s \in Sources : coAppendFails(c, s) /\ Sequential'
    \/ reload(c) /\ Sequential'

SeqSpec == Init /\ [][SeqNext]_vars

(***************************************************************************)
(* Coordinator runs that all check the stored log (no client decides on    *)
(* its cache), so that only the interleaving of their steps is left.       *)
(***************************************************************************)
LiveCheck == \A cs \in inFlight : Len(allMessages[cs[1]]) = 0

RaceNext ==
  \E c \in Clients :
    \/ initializeSession(c) /\ LiveCheck'
    \/ handlePartnerSelect(c) /\ LiveCheck'
    \/ startReply(c) /\ LiveCheck'
    \/ loadChatHistory(c) /\ LiveCheck'
    \/ handleSubmit(c) /\ LiveCheck'
    \/ handleSubmitReply(c) /\ LiveCheck'
    \/ handleSubmitSummary(c) /\ LiveCheck'
    \/ handleSubmitFails(c) /\ LiveCheck'
    \/ handleSubmitSummaryFails(c) /\ LiveCheck'
    \/ poll(c) /\ LiveCheck'
    \/ timer(c) /\ LiveCheck'
    \/ \E s \in Sources : coFetch(c, s) /\ LiveCheck'
    \/ \E s \in Sources : coAppend(c, s) /\ LiveCheck'
    \/ \E s \in Sources : coAppendFails(c, s) /\ LiveCheck'
    \/ reload(c) /\ LiveCheck'

RaceSpec == Init /\ [][RaceNext]_vars

(***************************************************************************)
(* The poll under fair scheduling: the interval and the timer fire, and     *)
(* every storage call is answered.  A tab may also be closed for good.      *)
(***************************************************************************)
\* the tab is closed while no request of the client is in flight
close(c) ==
  /\ open[c]
  /\ reloads < MaxReloads
  /\ ~starting[c]
  /\ turn[c].pc = "idle"
  /\ \A s \in Sources : co[c][s].pc \in {"idle", "timer"}
  /\ reloads' = reloads + 1
  /\ open' = [open EXCEPT ![c] = FALSE]
  /\ selectedPartner' = [selectedPartner EXCEPT ![c] = Null]
  /\ isUsed' = [isUsed EXCEPT ![c] = {}]
  /\ messages' = [messages EXCEPT ![c] = <<>>]
  /\ allMessages' = [allMessages EXCEPT ![c] = <<>>]
  /\ bothPartnersCompleted' = [bothPartnersCompleted EXCEPT ![c] = FALSE]
  /\ currentPartnerCompleted' = [currentPartnerCompleted EXCEPT ![c] = FALSE]
  /\ co' = [co EXCEPT ![c] = [s \in Sources |-> IdleCo]]
  /\ UNCHANGED <<dbVars, isNewUser, apiVars, localStorage, isLoading, starting, turn, turns,
                 fails, runs>>

LiveNext ==
  \E c \in Clients :
    \/ initializeSession(c)
    \/ handlePartnerSelect(c)
    \/ startReply(c)
    \/ loadChatHistory(c)
    \/ handleSubmit(c)
    \/ handleSubmitReply(c)
    \/ handleSubmitSummary(c)
    \/ handleSubmitFails(c)
    \/ handleSubmitSummaryFails(c)
    \/ poll(c)
    \/ timer(c)
    \/ \E s \in Sources : coFetch(c, s) \/ coAppend(c, s) \/ coAppendFails(c, s)
    \/ close(c)

Fairness ==
  \A c \in Clients :
    /\ WF_vars(poll(c))
    /\ WF_vars(timer(c))
    /\ \A s \in Sources :
         /\ WF_vars(coFetch(c, s))
         /\ WF_vars(coAppend(c, s) \/ coAppendFails(c, s))

LiveSpec == Init /\ [][LiveNext]_vars /\ Fairness

(***************************************************************************)
(* The partitioner on its own: any log of up to MaxLogLen messages, and    *)
(* clients that compute a thread from the log or from a thread.            *)
(***************************************************************************)
\* the name of a user message is a partner's, that of an assistant message a
\* partner's or SOLUTION
Names == Partners \cup {SOLUTION}

RECURSIVE LogsOfLen(_)
LogsOfLen(n) ==
  IF n = 0 THEN {<<>>}
  ELSE {Append(l, Msg(n, "user", name, UserText)) :
          l \in LogsOfLen(n - 1), name \in Partners}
       \cup {Append(l, Msg(n, "assistant", name, UserText)) :
               l \in LogsOfLen(n - 1), name \in Names}

PartInit ==
  /\ log \in UNION {LogsOfLen(n) : n \in 0..MaxLogLen}
  /\ summaries = <<>>
  /\ open = [c \in Clients |-> TRUE]
  /\ isNewUser = [c \in Clients |-> TRUE]
  /\ localStorage = [c \in Clients |-> Null]
  /\ selectedPartner = [c \in Clients |-> Null]
  /\ isUsed = [c \in Clients |-> {}]
  /\ messages = [c \in Clients |-> <<>>]
  /\ allMessages = [c \in Clients |-> <<>>]
  /\ bothPartnersCompleted = [c \in Clients |-> FALSE]
  /\ currentPartnerCompleted = [c \in Clients |-> FALSE]
  /\ isLoading = [c \in Clients |-> FALSE]
  /\ starting = [c \in Clients |-> FALSE]
  /\ turn = [c \in Clients |-> IdleTurn]
  /\ co = [c \in Clients |-> [s \in Sources |-> IdleCo]]
  /\ turns = 0
  /\ reloads = 0
  /\ fails = 0
  /\ runs = 0
  /\ sessions = StoredSessions
  /\ partner1Name = <<>>
  /\ partner2Name = <<>>
  /\ request = NoRequest
  /\ response = NoResponse

\* the client computes the thread of partnerName from the log
threadFor(c, partnerName) ==
  /\ selectedPartner' = [selectedPartner EXCEPT ![c] = partnerName]
  /\ allMessages' = [allMessages EXCEPT ![c] = log]
  /\ messages' = [messages EXCEPT ![c] = filterMessagesByPartner(log, partnerName)]
  /\ UNCHANGED <<dbVars, open, isNewUser, apiVars, localStorage, isUsed, bothPartnersCompleted,
                 currentPartnerCompleted, isLoading, starting, turn, co, turns,
                 reloads, fails, runs>>

\* the client computes the thread again, from the thread it holds
threadAgain(c) ==
  /\ selectedPartner[c] # Null
  /\ allMessages' = [allMessages EXCEPT ![c] = messages[c]]
  /\ messages' = [messages EXCEPT
                    ![c] = filterMessagesByPartner(messages[c], selectedPartner[c])]
  /\ UNCHANGED <<dbVars, open, isNewUser, apiVars, localStorage, selectedPartner, isUsed,
                 bothPartnersCompleted, currentPartnerCompleted, isLoading, starting,
                 turn, co, turns, reloads, fails, runs>>

PartNext ==
  \E c \in Clients :
    \/ \E partnerName \in Partners : threadFor(c, partnerName)
    \/ threadAgain(c)

PartSpec == PartInit /\ [][PartNext]_vars

(***************************************************************************)
(* The detector on its own: one partner's turns, answered by replies that  *)
(* hold a marker phrase in some casing, or none.                           *)
(***************************************************************************)
Filler == "tell me more"

\* the casings of a marker phrase that the replies are drawn from
casings(marker) ==
  CASE marker = "Here's what I've understood about your side of the story:"
         -> {marker, "HERE'S WHAT I'VE UNDERSTOOD ABOUT YOUR SIDE OF THE STORY:",
             "here's what i've understood about your side of the story:"}
    [] marker = "Here's what I've understood about their perspective so far"
         -> {marker, "HERE'S WHAT I'VE UNDERSTOOD ABOUT THEIR PERSPECTIVE SO FAR",
             "here's what i've understood about their perspective so far"}
    [] marker = "what I've understood about your perspective so far"
         -> {marker, "WHAT I'VE UNDERSTOOD ABOUT YOUR PERSPECTIVE SO FAR",
             "what i've understood about your perspective so far"}
    [] marker = "Here's what I have understood so far from your perspective"
         -> {marker, "HERE'S WHAT I HAVE UNDERSTOOD SO FAR FROM YOUR PERSPECTIVE",
             "here's what i have understood so far from your perspective"}

MarkerTokens == UNION {casings(marker) : marker \in summaryMarkers}

\* replies of one or two phrases
Replies ==
  {<<t>> : t \in MarkerTokens \cup {Filler}}
    \cup {<<t, Filler>> : t \in MarkerTokens \cup instructedPhrases \cup {Filler}}
    \cup {<<Filler, t>> : t \in MarkerTokens}

\* the first partner's client after the opener; no other tab is open
DetectInit ==
  /\ log = <<Msg(1, "assistant", partnerNames[1], <<"what's been going on?">>)>>
  /\ summaries = <<>>
  /\ open = [c \in Clients |-> c = 1]
  /\ isNewUser = [c \in Clients |-> c > 1]
  /\ localStorage = [c \in Clients |-> IF c = 1 THEN partnerNames[1] ELSE Null]
  /\ selectedPartner = [c \in Clients |-> IF c = 1 THEN partnerNames[1] ELSE Null]
  /\ isUsed = [c \in Clients |-> {}]
  /\ messages = [c \in Clients |->
                   IF c = 1
                     THEN <<Msg(0, "assistant", partnerNames[1], <<"what's been going on?">>)>>
                     ELSE <<>>]
  /\ allMessages = [c \in Clients |-> <<>>]
  /\ bothPartnersCompleted = [c \in Clients |-> FALSE]
  /\ currentPartnerCompleted = [c \in Clients |-> FALSE]
  /\ isLoading = [c \in Clients |-> FALSE]
  /\ starting = [c \in Clients |-> FALSE]
  /\ turn = [c \in Clients |-> IdleTurn]
  /\ co = [c \in Clients |-> [s \in Sources |-> IdleCo]]
  /\ turns = 0
  /\ reloads = 0
  /\ fails = 0
  /\ runs = 0
  /\ sessions = StoredSessions
  /\ partner1Name = <<>>
  /\ partner2Name = <<>>
  /\ request = NoRequest
  /\ response = NoResponse

\* the chat route answers with any of the replies
detectReply(c) == \E aiMessage \in Replies : handleSubmitReplyWith(c, aiMessage)

DetectNext ==
  \E c \in Clients :
    \/ handleSubmit(c)
    \/ detectReply(c)
    \/ handleSubmitSummary(c)
    \/ handleSubmitFails(c)
    \/ handleSubmitSummaryFails(c)

DetectSpec == DetectInit /\ [][DetectNext]_vars

(***************************************************************************)
(* The chat route on its own: any request body, against the session of the *)
(* model and any summaries table of up to MaxSummaries rows.               *)
(***************************************************************************)
MaxHistory == 3

Requests ==
  [sessionId : {"", SessionId, PilotId, "s3", "not-a-uuid"},
   partnerName : {"", "C"} \cup Partners,
   message : {"", "hello", START_CONVERSATION},
   messages : UNION {LogsOfLen(n) : n \in 0..MaxHistory}]

\* the summary text stored for a partner
summaryTextOf(name) == <<"Here's what I have understood so far from your perspective", name>>

RECURSIVE SummaryTables(_)
SummaryTables(n) ==
  IF n = 0 THEN {<<>>}
  ELSE {Append(rows, [partner_name |-> name, summary_text |-> summaryTextOf(name)]) :
          rows \in SummaryTables(n - 1), name \in Partners}

RouteInit ==
  /\ log = <<>>
  /\ summaries \in UNION {SummaryTables(n) : n \in 0..MaxSummaries}
  /\ open = [c \in Clients |-> FALSE]
  /\ isNewUser = [c \in Clients |-> TRUE]
  /\ localStorage = [c \in Clients |-> Null]
  /\ selectedPartner = [c \in Clients |-> Null]
  /\ isUsed = [c \in Clients |-> {}]
  /\ messages = [c \in Clients |-> <<>>]
  /\ allMessages = [c \in Clients |-> <<>>]
  /\ bothPartnersCompleted = [c \in Clients |-> FALSE]
  /\ currentPartnerCompleted = [c \in Clients |-> FALSE]
  /\ isLoading = [c \in Clients |-> FALSE]
  /\ starting = [c \in Clients |-> FALSE]
  /\ turn = [c \in Clients |-> IdleTurn]
  /\ co = [c \in Clients |-> [s \in Sources |-> IdleCo]]
  /\ turns = 0
  /\ reloads = 0
  /\ fails = 0
  /\ runs = 0
  /\ sessions = StoredSessions
  /\ partner1Name = <<>>
  /\ partner2Name = <<>>
  /\ request \in Requests
  /\ response = NoResponse

routeFrame ==
  UNCHANGED <<dbVars, open, isNewUser, localStorage, selectedPartner, isUsed, messages,
              allMessages, bothPartnersCompleted, currentPartnerCompleted, isLoading,
              starting, turn, co, turns, reloads, fails, runs, sessions, partner1Name,
              partner2Name, request>>

\* the route answers without calling the completion function
POSTrejects ==
  /\ response = NoResponse
  /\ validate(request) # NoResponse
  /\ response' = validate(request)
  /\ routeFrame

\* the route builds the prompt, calls the completion function and answers
POSTanswers ==
  /\ response = NoResponse
  /\ validate(request) = NoResponse
  /\ \E aiResponse \in (IF request.message = START_CONVERSATION
                         THEN StartResponses(request.partnerName)
                         ELSE AiResponses(request.partnerName)) :
       response' = [status |-> 200, error |-> "",
                    prompt |-> selectedPrompt(summaries, request.partnerName,
                                              request.message),
                    chatMessages |-> chatMessages(request),
                    message |-> aiResponse, summary |-> summaryOf(aiResponse)]
  /\ routeFrame

\* the completion function throws: the catch of the route answers
POSTfails ==
  /\ response = NoResponse
  /\ validate(request) = NoResponse
  /\ response' = [NoResponse EXCEPT
                    !.status = 500, !.error = "Failed to process therapy chat",
                    !.prompt = selectedPrompt(summaries, request.partnerName,
                                              request.message),
                    !.chatMessages = chatMessages(request)]
  /\ routeFrame

RouteNext == POSTrejects \/ POSTanswers \/ POSTfails

RouteSpec == RouteInit /\ [][RouteNext]_vars

(***************************************************************************)
(* The home page on its own: any two texts of up to MaxNameLen characters  *)
(* in the name fields, and the "Start Session" button.                     *)
(***************************************************************************)
NameChars == {Space, "A", "B"}

RECURSIVE TextsOfLen(_)
TextsOfLen(n) ==
  IF n = 0 THEN {<<>>}
  ELSE {Append(t, ch) : t \in TextsOfLen(n - 1), ch \in NameChars}

NameInputs == UNION {TextsOfLen(n) : n \in 0..MaxNameLen}

\* String.prototype.trim
RECURSIVE trimStart(_)
trimStart(text) ==
  IF Len(text) > 0 /\ text[1] = Space THEN trimStart(Tail(text)) ELSE text

RECURSIVE trimEnd(_)
trimEnd(text) ==
  IF Len(text) > 0 /\ text[Len(text)] = Space
    THEN trimEnd(SubSeq(text, 1, Len(text) - 1)) ELSE text

trim(text) == trimEnd(trimStart(text))

\* String.prototype.split(' & ')
RECURSIVE splitFrom(_, _, _, _)
splitFrom(text, i, part, parts) ==
  IF i > Len(text) THEN Append(parts, part)
  ELSE IF i + 2 <= Len(text) /\ SubSeq(text, i, i + 2) = Separator
    THEN splitFrom(text, i + 3, <<>>, Append(parts, part))
  ELSE splitFrom(text, i + 1, Append(part, text[i]), parts)

split(text) == splitFrom(text, 1, <<>>, <<>>)

SessionIds == <<SessionId, PilotId, "s3">>

\* therapyService.createTherapySession: insert into chat_sessions
createTherapySession(rows, partnerNamesText) ==
  Append(rows, [id |-> SessionIds[Len(rows) + 1], session_type |-> "THERAPY",
                partner_names |-> partnerNamesText])

CreateInit ==
  /\ log = <<>>
  /\ summaries = <<>>
  /\ open = [c \in Clients |-> FALSE]
  /\ isNewUser = [c \in Clients |-> TRUE]
  /\ localStorage = [c \in Clients |-> Null]
  /\ selectedPartner = [c \in Clients |-> Null]
  /\ isUsed = [c \in Clients |-> {}]
  /\ messages = [c \in Clients |-> <<>>]
  /\ allMessages = [c \in Clients |-> <<>>]
  /\ bothPartnersCompleted = [c \in Clients |-> FALSE]
  /\ currentPartnerCompleted = [c \in Clients |-> FALSE]
  /\ isLoading = [c \in Clients |-> FALSE]
  /\ starting = [c \in Clients |-> FALSE]
  /\ turn = [c \in Clients |-> IdleTurn]
  /\ co = [c \in Clients |-> [s \in Sources |-> IdleCo]]
  /\ turns = 0
  /\ reloads = 0
  /\ fails = 0
  /\ runs = 0
  /\ sessions = <<>>
  /\ partner1Name \in NameInputs
  /\ partner2Name \in NameInputs
  /\ request = NoRequest
  /\ response = NoResponse

\* the "Start Session" button: the guard on the trimmed names, then the
\* create-session route, which rejects only an empty or non-string partnerNames
handleStartSession ==
  LET partnerNamesText == trim(partner1Name) \o Separator \o trim(partner2Name) IN
    /\ Len(sessions) < MaxSessions
    /\ trim(partner1Name) # <<>>
    /\ trim(partner2Name) # <<>>
    /\ partnerNamesText # <<>>
    /\ sessions' = createTherapySession(sessions, partnerNamesText)
    /\ UNCHANGED <<dbVars, open, isNewUser, localStorage, selectedPartner, isUsed,
                   messages, allMessages, bothPartnersCompleted,
                   currentPartnerCompleted, isLoading, starting, turn, co, turns,
                   reloads, fails, runs, partner1Name, partner2Name, request, response>>

CreateNext == handleStartSession

CreateSpec == CreateInit /\ [][CreateNext]_vars

(***************************************************************************)
(* Properties.                                                             *)
(***************************************************************************)
solutions == {i \in DOMAIN log : log[i].name = SOLUTION}

hasSummary(name) == \E i \in DOMAIN summaries : summaries[i].partner_name = name

bothSummarized == hasSummary(partnerNames[1]) /\ hasSummary(partnerNames[2])

\* C1: once both partners have a Summary, coordinator runs made one after
\* another (two or more, none still in flight, no storage error) leave exactly
\* one SOLUTION message in the log
C1_SequentialRunsOneSolution ==
  (bothSummarized /\ runs >= 2 /\ inFlight = {} /\ fails = 0)
    => Cardinality(solutions) = 1

\* C2: however the steps of concurrent coordinator runs interleave, the log
\* holds at most one SOLUTION message
C2_ConcurrentRunsAtMostOneSolution == Cardinality(solutions) <= 1

\* C3: a SOLUTION message in the log implies a Summary of the first-listed
\* partner and a Summary of the second-listed partner
C3_SolutionImpliesBothSummaries == hasSolution(log) => bothSummarized

C5_SolutionEventually ==
  <>[](/\ bothSummarized
       /\ \E c \in Clients : open[c] /\ selectedPartner[c] # Null
       /\ runs < MaxRuns)
    => <>hasSolution(log)

\* C6: a step in which the append of the SOLUTION message fails leaves
\* bothPartnersCompleted false in that client
C6_FailedAppendLeavesFlagFalse ==
  [][\A c \in Clients : \A s \in Sources :
       coAppendFails(c, s) => ~bothPartnersCompleted'[c]]_vars

\* the entries of a sequence of messages
entries(msgs) == {msgs[i] : i \in DOMAIN msgs}

\* C7: the threads computed from the log for the two partners, by the client's
\* partitioner and by the service's history query, share no entry other than
\* SOLUTION entries
C7_ThreadsDisjoint ==
  /\ \A m \in entries(filterMessagesByPartner(log, partnerNames[1]))
             \cap entries(filterMessagesByPartner(log, partnerNames[2])) :
       m.name = SOLUTION
  /\ \A m \in entries(getTherapyChatHistory(log, partnerNames[1]))
             \cap entries(getTherapyChatHistory(log, partnerNames[2])) :
       m.name = SOLUTION

\* the partner's own view of the log: the messages saved under the partner's
\* name (user turns and the replies to them) and the SOLUTION entries
ownView(msgs, partnerName) ==
  SelectSeq(msgs, LAMBDA m : m.name = partnerName \/ m.name = SOLUTION)

\* C8: whatever the interleaving of the two partners' turns in the log, the
\* thread computed for a partner is that partner's own view
C8_ThreadIsOwnView ==
  \A partnerName \in Partners :
    filterMessagesByPartner(log, partnerName) = ownView(log, partnerName)

\* C9: every SOLUTION entry of the log is in the thread of each partner, by
\* the client's partitioner and by the service's history query
C9_SolutionInEveryThread ==
  \A i \in solutions : \A partnerName \in Partners :
    /\ log[i] \in entries(filterMessagesByPartner(log, partnerName))
    /\ log[i] \in entries(getTherapyChatHistory(log, partnerName))

\* C10: a thread computed by the partitioner, from the log or from a thread it
\* computed before, is the thread of the log
C10_PartitionerIdempotent ==
  \A c \in Clients :
    selectedPartner[c] # Null
      => messages[c] = filterMessagesByPartner(log, selectedPartner[c])

\* the partitioner has been applied to its own output, a thread of two or more
\* messages that is shorter than the log
C10_Witness ==
  \E c \in Clients :
    /\ selectedPartner[c] # Null
    /\ allMessages[c] = messages[c]
    /\ Len(messages[c]) >= 2
    /\ Len(messages[c]) < Len(log)

\* the Summary rows stored under a partner's name
summaryRows(name) == {i \in DOMAIN summaries : summaries[i].partner_name = name}

\* C11: in every reachable state each partner has at most one Summary row
C11_OneSummaryPerPartner ==
  \A name \in Partners : Cardinality(summaryRows(name)) <= 1

\* the reply holds a marker phrase in some casing
containsMarker(aiResponse) ==
  \E i \in DOMAIN aiResponse : \E marker \in summaryMarkers : aiResponse[i] \in casings(marker)

\* C12: the answer to a turn is classified as a summary exactly when the reply
\* holds one of the marker phrases, in whatever casing
C12_DetectorCaseInsensitive ==
  [][\A c \in Clients : \A aiMessage \in Replies :
       handleSubmitReplyWith(c, aiMessage)
         => ((turn'[c].pc = "summary") <=> containsMarker(aiMessage))]_vars

\* a reply whose marker phrase is in capitals has been classified as a summary
C12_Witness ==
  \E c \in Clients :
    /\ turn[c].pc = "summary"
    /\ \E i \in DOMAIN turn[c].summary : \E marker \in summaryMarkers :
         /\ turn[c].summary[i] \in casings(marker)
         /\ turn[c].summary[i] # marker
         /\ turn[c].summary[i] # toLowerCase(marker)

\* the assistant messages of the log saved under a partner's name
repliesFor(name) ==
  {log[i].message : i \in {j \in DOMAIN log : log[j].role = "assistant" /\ log[j].name = name}}

containsText(prompt, text) ==
  \E i \in 1..(Len(prompt) - Len(text) + 1) : SubSeq(prompt, i, i + Len(text) - 1) = text

\* C14: the prompt built for the second partner's START_CONVERSATION holds the
\* first partner's summary text when the first partner has a Summary, and no
\* summary text when the first partner has none
C14_PromptEmbedsFirstSummary ==
  (/\ response.prompt # NoPrompt
   /\ request.partnerName = partnerNames[2]
   /\ request.message = START_CONVERSATION)
    => IF hasSummary(partnerNames[1])
         THEN containsText(response.prompt, findSummary(summaries, partnerNames[1]))
         ELSE \A name \in Partners : ~containsText(response.prompt, summaryTextOf(name))

\* C15: the prompt is built from the first-partner template only for the
\* first name of the pair, and from the second-partner template only for the
\* second name
C15_TemplateByPosition ==
  response.prompt # NoPrompt
    => /\ response.prompt[1] = "createPartner1Prompt"
            => request.partnerName = partnerNames[1]
       /\ response.prompt[1] = "createPartner2Prompt"
            => request.partnerName = partnerNames[2]

\* the request lacks a field, or its sessionId names no therapy session
badRequest(req) ==
  \/ req.sessionId = ""
  \/ req.partnerName = ""
  \/ req.message = ""
  \/ ~\E i \in DOMAIN sessions :
        sessions[i].id = req.sessionId /\ sessions[i].session_type = "THERAPY"

\* C16: a request that lacks a field or names no therapy session is answered
\* with the missing-field or the session-not-found error, the completion
\* function is not called and the stored sessions, messages and summaries stay
C16_BadRequestRejected ==
  [][(badRequest(request) /\ response' # response)
       => /\ \/ response'.status = 400 /\ response'.error = "Missing required fields"
             \/ response'.status = 404 /\ response'.error = "Session not found"
          /\ response'.prompt = NoPrompt
          /\ UNCHANGED <<log, summaries, sessions>>]_vars

\* C20: every stored therapy session has two partner names, not empty and
\* different from each other
C20_TwoDistinctNames ==
  \A i \in DOMAIN sessions :
    sessions[i].session_type = "THERAPY"
      => LET names == split(sessions[i].partner_names) IN
           /\ Len(names) = 2
           /\ names[1] # <<>>
           /\ names[2] # <<>>
           /\ names[1] # names[2]

\* the last message of the log saved under a partner's name
lastNamed(name) ==
  LET rows == SelectSeq(log, LAMBDA m : m.name = name) IN rows[Len(rows)]

\* C17: a turn that failed leaves nothing in the log: while no turn of a
\* partner is in flight, the partner's last message in the log is not a user
\* message without its reply
C17_NoPartialPersistence ==
  \A name \in Partners :
    (/\ \A c \in Clients : selectedPartner[c] = name => turn[c].pc = "idle"
     /\ \E i \in DOMAIN log : log[i].name = name)
      => lastNamed(name).role # "user"

\* C18: a client has at most one request to the chat route in flight, the
\* opener included
C18_OneTurnInFlight ==
  \A c \in Clients : ~(starting[c] /\ turn[c].pc # "idle")

\* C19: no user turn is accepted for a partner who has a Summary, a client
\* marks the session complete only when both partners have a Summary, and
\* the mark once set stays
C19_LifecycleForward ==
  [][\A c \in Clients :
       /\ handleSubmit(c) => ~hasSummary(selectedPartner[c])
       /\ bothPartnersCompleted'[c] => bothSummarized'
       /\ bothPartnersCompleted[c] => bothPartnersCompleted'[c]]_vars

\* C21: every step leaves the messages already in the log in place, in their
\* order and with their id, role, name and text
C21_LogAppendOnly ==
  [][Len(log') >= Len(log) /\ SubSeq(log', 1, Len(log)) = log]_vars

\* messages of both partners and a SOLUTION message have been appended
C21_Witness ==
  /\ hasSolution(log)
  /\ \A name \in Partners : \E i \in DOMAIN log : log[i].name = name

\* C22: a run of the coordinator decides to append only when the log, as it
\* is stored when the run makes its check, holds no SOLUTION message
C22_CheckSeesStoredLog ==
  [][\A c \in Clients : \A s \in Sources :
       (co[c][s].pc # "append" /\ co'[c][s].pc = "append") => ~hasSolution(log)]_vars

\* C23: on the stored log the client's partitioner and the service's history
\* query give the same thread, for either partner
C23_PartitionerIsHistoryQuery ==
  \A partnerName \in Partners :
    filterMessagesByPartner(log, partnerName) = getTherapyChatHistory(log, partnerName)

\* C24: while a normal turn is in flight, the input the route hands to the
\* completion function is the system prompt, then the history of the thread
\* the partner held before the turn, then the new user text once, as the last
\* element
C24_TurnInputIsPromptHistoryTurn ==
  \A c \in Clients :
    turn[c].pc = "sent"
      => LET req == turn[c].body
             prior == SubSeq(req.messages, 1, Len(req.messages) - 1)
         IN chatMessages(req)
              = <<[role |-> "system",
                   content |-> selectedPrompt(summaries, req.partnerName, req.message)]>>
                \o conversationHistory(partnerOnlyMessages(prior, req.partnerName))
                \o <<[role |-> "user", content |-> <<req.message>>]>>

\* the messages of a request that carry the partner's name
ownMessages(req) == SelectSeq(req.messages, LAMBDA msg : msg.name = req.partnerName)

\* C26: the input the route hands to the completion function for a partner is
\* the one it builds from the request without the messages labelled with the
\* other partner's name or SOLUTION
C26_InputIgnoresOtherMessages ==
  response.chatMessages # <<>>
    => response.chatMessages = chatMessages([request EXCEPT !.messages = ownMessages(request)])

\* the route has built the input of a normal turn from a request whose thread
\* holds a message of the partner, one of the other partner and a SOLUTION one
C26_Witness ==
  /\ response.status = 200
  /\ request.message # START_CONVERSATION
  /\ Len(response.chatMessages) = 3
  /\ \E i \in DOMAIN request.messages : request.messages[i].name = SOLUTION
  /\ \E i \in DOMAIN request.messages :
       request.messages[i].name \in Partners \ {request.partnerName}

\* C25: the step in which a client receives the reply to START_CONVERSATION
\* and saves it as the opener stores no Summary row, whatever the reply says
C25_OpenerStoresNoSummary ==
  [][\A c \in Clients :
       (starting[c] /\ ~starting'[c] /\ Len(log') > Len(log)) => summaries' = summaries]_vars

\* an opener that contains a marker is in the log under the name of a partner
\* who has no Summary row
C25_Witness ==
  \E i \in DOMAIN log :
    /\ log[i].role = "assistant"
    /\ log[i].name \in Partners
    /\ hasSummaryFormat(log[i].message)
    /\ ~hasUserMessagesBefore(log, i, log[i].name)
    /\ ~hasSummary(log[i].name)

\* C27: no two clients have the same partner selected
C27_OneClientPerPartner ==
  \A c1, c2 \in Clients :
    (c1 # c2 /\ open[c1] /\ open[c2] /\ selectedPartner[c1] # Null)
      => selectedPartner[c1] # selectedPartner[c2]

\* C28: a client whose bothPartnersCompleted is true finds a SOLUTION message
\* in the log
C28_CompletedImpliesSolution ==
  \A c \in Clients : (open[c] /\ bothPartnersCompleted[c]) => hasSolution(log)

\* C29: a reply that opens with a phrase one of the prompt templates
\* instructs, written as the template writes it, is classified as a summary
C29_InstructedPhrasesDetected ==
  [][\A c \in Clients : \A aiMessage \in Replies :
       (handleSubmitReplyWith(c, aiMessage) /\ aiMessage[1] \in instructedPhrases)
         => turn'[c].pc = "summary"]_vars

====
